---- MODULE Spec2Model ----
(***************************************************************************)
(* Invoice lifecycle of factor-back: InvoicesService (create, confirm,     *)
(* pay, update, remove) over the invoice table, with dates in whole days.  *)
(*                                                                         *)
(* Spec        : calls run one after the other; each handler is one action.*)
(* SpecHistory : Spec with a history variable of the numbers handed out.   *)
(* SpecConc    : confirm calls overlap; every await of confirm is a step.  *)
(***************************************************************************)
EXTENDS Integers, Sequences, FiniteSets, TLC

VARIABLES invoices, nextId, now, last, assigned, calls, users, invitations

vars == <<invoices, nextId, now, last, assigned, calls, users, invitations>>

(***************************************************************************)
(* Bounds of the model.                                                    *)
(***************************************************************************)
MaxInvoices == 2        \* invoices ever created (ids are never reused)
MaxNow == 2             \* days the clock runs through
MaxCalls == 2           \* confirm calls in flight at once (SpecConc)

(***************************************************************************)
(* Program constants.                                                      *)
(***************************************************************************)
DefaultDueDays == 30
DefaultTaxRate == 21
PadWidth == 4
EpochZero == 0          \* new Date(0)

Ids == 1..MaxInvoices
NoInvoice == [absent |-> TRUE]      \* findUnique returned null
NoCompany == "null"                 \* user.companyId is null

Users == {"u1", "u2", "u0"}
Companies == {"c1", "c2"}
SeriesNames == {"2026", "A"}

\* prisma.user.findUnique({ select: { companyId } }): u0 has no company.
UserCompanyId(u) == CASE u = "u1" -> "c1" [] u = "u2" -> "c2" [] OTHER -> NoCompany

\* The user table behind UserCompanyId, and an empty invitation table.
StoredUsers == [u \in Users |-> [companyId |-> UserCompanyId(u), role |-> "ADMIN"]]
NoInvitations == <<>>

\* new Date().getFullYear().toString(): the modelled days lie in one year.
CurrentYear(d) == "2026"

Statuses == {"DRAFT", "PENDING", "PAID"}    \* create-invoice.dto InvoiceStatus

(***************************************************************************)
(* String(n).padStart(4, '0'): a number as its string of decimal digits.   *)
(***************************************************************************)
RECURSIVE DecimalString(_)
DecimalString(n) == IF n < 10 THEN <<n>> ELSE Append(DecimalString(n \div 10), n % 10)

RECURSIVE PadStart(_, _, _)
PadStart(s, width, fill) == IF Len(s) >= width THEN s ELSE PadStart(<<fill>> \o s, width, fill)

FormatNumber(count) == PadStart(DecimalString(count + 1), PadWidth, 0)

EmptyNumber == <<>>                 \* invoiceNumber = ''

\* Date arithmetic of dueDate.setDate(dueDate.getDate() + dueDays), in days.
AddDays(base, days) == base + days

(***************************************************************************)
(* The invoice table.                                                      *)
(***************************************************************************)
Exists(i) == invoices[i] # NoInvoice

\* prisma.invoice.count({ where: { companyId, invoiceSeries, status: { not: 'DRAFT' } } })
CountNonDraft(tbl, companyId, series) ==
    Cardinality({i \in Ids : /\ tbl[i] # NoInvoice
                             /\ tbl[i].companyId = companyId
                             /\ tbl[i].invoiceSeries = series
                             /\ tbl[i].status # "DRAFT"})

\* items.map(item => ({ ..., taxRate: item.taxRate ?? 21.00 }))
ItemRow(item) ==
    [name |-> item.name, quantity |-> item.quantity, price |-> item.price,
     taxRate |-> IF "taxRate" \in DOMAIN item THEN item.taxRate ELSE DefaultTaxRate]

ItemRows(items) == [k \in 1..Len(items) |-> ItemRow(items[k])]

Has(dto, f) == f \in DOMAIN dto

\* What the last call returned: the operation, the id it was given (create:
\* the id it made, 0 when it made none) and "ok" or the exception thrown.
Result(op, i, res) == [op |-> op, id |-> i, res |-> res]


(***************************************************************************)
(* Request bodies.  A DTO is a record that has only the fields the request *)
(* carries; dates are day numbers.                                         *)
(***************************************************************************)
EmptyDto == [f \in {} |-> 0]

ItemsA == << [name |-> "work", quantity |-> 2, price |-> 100, taxRate |-> 21] >>

SeriesFields == {EmptyDto, [invoiceSeries |-> "A"]}
StatusFields == {EmptyDto} \cup {[status |-> s] : s \in Statuses}

\* Bodies of POST /invoices (CreateInvoiceDto).
CreateDtos == {[items |-> ItemsA] @@ a @@ b : a \in SeriesFields, b \in StatusFields}

\* Bodies of PATCH /invoices/:id (UpdateInvoiceDto = PartialType(CreateInvoiceDto)).
UpdateDtos ==
    {a @@ b : a \in SeriesFields, b \in StatusFields}

(***************************************************************************)
(* InvoicesService.create                                                  *)
(***************************************************************************)
CreateError(u) ==
    IF UserCompanyId(u) = NoCompany
    THEN "BadRequest: User must be associated with a company to create invoices"
    ELSE "ok"

\* Variant: only an absent status makes a draft.
CreateIsDraftOnlyAbsent(dto) == ~Has(dto, "status")

CreateIsDraft(dto) == ~Has(dto, "status") \/ dto.status = "DRAFT"

CreateRow(tbl, companyId, dto, today) ==
    LET invoiceSeries == IF Has(dto, "invoiceSeries") THEN dto.invoiceSeries ELSE CurrentYear(today)
        isDraft       == CreateIsDraft(dto)
        dueDays       == IF Has(dto, "dueDays") THEN dto.dueDays ELSE DefaultDueDays
        invoiceCount  == CountNonDraft(tbl, companyId, invoiceSeries)
        invoiceNumber == IF isDraft THEN EmptyNumber ELSE FormatNumber(invoiceCount)
        emissionDate  == IF isDraft THEN EpochZero
                         ELSE IF Has(dto, "emissionDate") THEN dto.emissionDate ELSE today
        baseDate      == IF isDraft THEN today ELSE emissionDate
    IN  [companyId     |-> companyId,
         invoiceSeries |-> invoiceSeries,
         invoiceNumber |-> invoiceNumber,
         status        |-> IF isDraft THEN "DRAFT" ELSE dto.status,
         emissionDate  |-> emissionDate,
         dueDays       |-> dueDays,
         dueDate       |-> AddDays(baseDate, dueDays),
         items         |-> ItemRows(dto.items)]

Create(u, dto) ==
    LET err == CreateError(u) IN
    /\ IF err # "ok"
       THEN /\ last' = Result("create", 0, err)
            /\ UNCHANGED <<invoices, nextId, now, calls>>
       ELSE /\ nextId <= MaxInvoices
            /\ invoices' = [invoices EXCEPT
                    ![nextId] = CreateRow(invoices, UserCompanyId(u), dto, now)]
            /\ nextId' = nextId + 1
            /\ last' = Result("create", nextId, "ok")
            /\ UNCHANGED <<now, calls>>

(***************************************************************************)
(* prisma.invoice.update({ where: { id }, data })                          *)
(***************************************************************************)
PrismaUpdate(inv, data) ==
    [f \in DOMAIN inv |-> IF f \in DOMAIN data THEN data[f] ELSE inv[f]]

(***************************************************************************)
(* InvoicesService.confirm                                                 *)
(***************************************************************************)
\* Variant: the status check of line 210 is missing.
ConfirmErrorNoStatusCheck(u, inv) ==
    IF UserCompanyId(u) = NoCompany
    THEN "BadRequest: User must be associated with a company to confirm invoices"
    ELSE IF inv = NoInvoice THEN "NotFound"
    ELSE IF inv.companyId # UserCompanyId(u)
    THEN "BadRequest: Invoice does not belong to your company"
    ELSE "ok"

\* Variant: the tenant check of line 214 is missing.
ConfirmErrorNoTenantCheck(u, inv) ==
    IF UserCompanyId(u) = NoCompany
    THEN "BadRequest: User must be associated with a company to confirm invoices"
    ELSE IF inv = NoInvoice THEN "NotFound"
    ELSE IF inv.status # "DRAFT" THEN "BadRequest: Only draft invoices can be confirmed"
    ELSE "ok"

ConfirmError(u, inv) ==
    IF UserCompanyId(u) = NoCompany
    THEN "BadRequest: User must be associated with a company to confirm invoices"
    ELSE IF inv = NoInvoice THEN "NotFound"
    ELSE IF inv.status # "DRAFT" THEN "BadRequest: Only draft invoices can be confirmed"
    ELSE IF inv.companyId # UserCompanyId(u)
    THEN "BadRequest: Invoice does not belong to your company"
    ELSE "ok"

ConfirmData(inv, invoiceCount, today) ==
    [status        |-> "PENDING",
     invoiceNumber |-> FormatNumber(invoiceCount),
     emissionDate  |-> today,
     dueDate       |-> AddDays(today, inv.dueDays)]

Confirm(u, i) ==
    LET inv  == invoices[i]
        err  == ConfirmError(u, inv)
        data == ConfirmData(inv, CountNonDraft(invoices, UserCompanyId(u), inv.invoiceSeries), now)
    IN  /\ last' = Result("confirm", i, err)
        /\ invoices' = IF err = "ok"
                       THEN [invoices EXCEPT ![i] = PrismaUpdate(inv, data)]
                       ELSE invoices
        /\ UNCHANGED <<nextId, now, calls>>

(***************************************************************************)
(* InvoicesService.pay                                                     *)
(***************************************************************************)
\* Variant: the status check of line 264 refuses drafts only.
PayErrorAllowsPaid(u, inv) ==
    IF UserCompanyId(u) = NoCompany
    THEN "BadRequest: User must be associated with a company to mark invoices as paid"
    ELSE IF inv = NoInvoice THEN "NotFound"
    ELSE IF inv.status = "DRAFT" THEN "BadRequest: Only pending invoices can be marked as paid"
    ELSE IF inv.companyId # UserCompanyId(u)
    THEN "BadRequest: Invoice does not belong to your company"
    ELSE "ok"

PayError(u, inv) ==
    IF UserCompanyId(u) = NoCompany
    THEN "BadRequest: User must be associated with a company to mark invoices as paid"
    ELSE IF inv = NoInvoice THEN "NotFound"
    ELSE IF inv.status # "PENDING" THEN "BadRequest: Only pending invoices can be marked as paid"
    ELSE IF inv.companyId # UserCompanyId(u)
    THEN "BadRequest: Invoice does not belong to your company"
    ELSE "ok"

\* Variant: pay also restarts the due date from the day of payment.
PayDataResetsDueDate(inv) == [status |-> "PAID", dueDate |-> AddDays(inv.dueDate, inv.dueDays)]

PayData(inv) == [status |-> "PAID"]

Pay(u, i) ==
    LET inv == invoices[i]
        err == PayError(u, inv)
    IN  /\ last' = Result("pay", i, err)
        /\ invoices' = IF err = "ok"
                       THEN [invoices EXCEPT ![i] = PrismaUpdate(inv, PayData(inv))]
                       ELSE invoices
        /\ UNCHANGED <<nextId, now, calls>>

(***************************************************************************)
(* InvoicesService.update (the controller passes no caller)                *)
(***************************************************************************)
UpdateError(inv) == IF inv = NoInvoice THEN "NotFound" ELSE "ok"

\* Variant: the items of the patch are added to the stored ones (no
\* deleteMany at line 394).
UpdateDataAppendsItems(inv, dto, today) ==
    LET updateData == [f \in DOMAIN dto \ {"items"} |-> dto[f]]
        withItems  == IF Has(dto, "items")
                      THEN updateData @@ [items |-> inv.items \o ItemRows(dto.items)]
                      ELSE updateData
    IN  IF Has(updateData, "dueDays")
        THEN LET emissionDate == IF Has(updateData, "emissionDate")
                                 THEN updateData.emissionDate ELSE inv.emissionDate
                 baseDate     == IF inv.status = "DRAFT" THEN today ELSE emissionDate
             IN  withItems @@ [dueDate |-> AddDays(baseDate, updateData.dueDays)]
        ELSE withItems

\* Variant: the base date is the current time whatever the stored status.
UpdateDataFromToday(inv, dto, today) ==
    LET updateData == [f \in DOMAIN dto \ {"items"} |-> dto[f]]
        withItems  == IF Has(dto, "items")
                      THEN updateData @@ [items |-> ItemRows(dto.items)]
                      ELSE updateData
    IN  IF Has(updateData, "dueDays")
        THEN withItems @@ [dueDate |-> AddDays(today, updateData.dueDays)]
        ELSE withItems

UpdateData(inv, dto, today) ==
    LET updateData == [f \in DOMAIN dto \ {"items"} |-> dto[f]]
        withItems  == IF Has(dto, "items")
                      THEN updateData @@ [items |-> ItemRows(dto.items)]
                      ELSE updateData
    IN  IF Has(updateData, "dueDays")
        THEN LET emissionDate == IF Has(updateData, "emissionDate")
                                 THEN updateData.emissionDate ELSE inv.emissionDate
                 baseDate     == IF inv.status = "DRAFT" THEN today ELSE emissionDate
             IN  withItems @@ [dueDate |-> AddDays(baseDate, updateData.dueDays)]
        ELSE withItems

Update(i, dto) ==
    LET inv == invoices[i]
        err == UpdateError(inv)
    IN  /\ last' = Result("update", i, err)
        /\ invoices' = IF err = "ok"
                       THEN [invoices EXCEPT ![i] = PrismaUpdate(inv, UpdateData(inv, dto, now))]
                       ELSE invoices
        /\ UNCHANGED <<nextId, now, calls>>

(***************************************************************************)
(* InvoicesService.remove (the controller passes no caller)                *)
(***************************************************************************)
RemoveError(inv) == IF inv = NoInvoice THEN "NotFound" ELSE "ok"

Remove(i) ==
    LET inv == invoices[i]
        err == RemoveError(inv)
    IN  /\ last' = Result("remove", i, err)
        /\ invoices' = IF err = "ok" THEN [invoices EXCEPT ![i] = NoInvoice] ELSE invoices
        /\ UNCHANGED <<nextId, now, calls>>

\* A day passes between two calls.
Tick ==
    /\ now < MaxNow
    /\ now' = now + 1
    /\ UNCHANGED <<invoices, nextId, last, calls>>

(***************************************************************************)
(* Calls one after the other.                                              *)
(***************************************************************************)
IdleCall == [pc |-> "idle"]

Init ==
    /\ invoices = [i \in Ids |-> NoInvoice]
    /\ nextId = 1
    /\ now = 1
    /\ last = Result("none", 0, "ok")
    /\ assigned = [k \in Companies \X SeriesNames |-> {}]
    /\ users = StoredUsers
    /\ invitations = NoInvitations
    /\ calls = [c \in 1..MaxCalls |-> IdleCall]

Next ==
    \/ \E u \in Users, dto \in CreateDtos : Create(u, dto) /\ UNCHANGED <<assigned, users, invitations>>
    \/ \E u \in Users, i \in Ids : Confirm(u, i) /\ UNCHANGED <<assigned, users, invitations>>
    \/ \E u \in Users, i \in Ids : Pay(u, i) /\ UNCHANGED <<assigned, users, invitations>>
    \/ \E i \in Ids, dto \in UpdateDtos : Update(i, dto) /\ UNCHANGED <<assigned, users, invitations>>
    \/ \E i \in Ids : Remove(i) /\ UNCHANGED <<assigned, users, invitations>>
    \/ Tick /\ UNCHANGED <<assigned, users, invitations>>

Spec == Init /\ [][Next]_vars

(***************************************************************************)
(* SpecHistory: the same calls, with the history variable assigned that    *)
(* remembers every number handed out in each (companyId, invoiceSeries).   *)
(* The code keeps no such record: it counts rows (lines 144-147, 219-226). *)
(***************************************************************************)
\* The step is a create or a confirm that wrote an invoiceNumber.
Assigns ==
    /\ last' # last
    /\ last'.res = "ok"
    /\ last'.op \in {"create", "confirm"}
    /\ invoices'[last'.id].invoiceNumber # EmptyNumber

Observe ==
    /\ assigned' = IF Assigns
                   THEN LET inv == invoices'[last'.id] IN
                        [assigned EXCEPT ![<<inv.companyId, inv.invoiceSeries>>] =
                             @ \cup {inv.invoiceNumber}]
                   ELSE assigned
    /\ UNCHANGED <<users, invitations>>

NextHistory ==
    \/ \E u \in Users, dto \in CreateDtos : Create(u, dto) /\ Observe
    \/ \E u \in Users, i \in Ids : Confirm(u, i) /\ Observe
    \/ \E u \in Users, i \in Ids : Pay(u, i) /\ Observe
    \/ \E i \in Ids, dto \in UpdateDtos : Update(i, dto) /\ Observe
    \/ \E i \in Ids : Remove(i) /\ Observe
    \/ Tick /\ Observe

SpecHistory == Init /\ [][NextHistory]_vars

(***************************************************************************)
(* SpecConc: confirm calls overlap.  A call in flight holds what it has    *)
(* read so far; each step runs the code between two awaits of confirm.     *)
(***************************************************************************)
CallIds == 1..MaxCalls

\* Bodies of POST /invoices that ask for a draft.
DraftDtos == {dto \in CreateDtos : CreateIsDraft(dto)}

\* await user.findUnique, await invoice.findUnique and the three checks.
ConfirmStart(c, u, i) ==
    LET inv == invoices[i]
        err == ConfirmError(u, inv)
    IN  /\ calls[c].pc = "idle"
        /\ IF err = "ok"
           THEN /\ calls' = [calls EXCEPT ![c] =
                                [pc |-> "count", user |-> u, id |-> i, invoice |-> inv]]
                /\ UNCHANGED last
           ELSE /\ last' = Result("confirm", i, err)
                /\ UNCHANGED calls
        /\ UNCHANGED <<invoices, nextId, now>>

\* await invoice.count, then the number and the dates are computed.
ConfirmCount(c) ==
    LET call == calls[c] IN
    /\ call.pc = "count"
    /\ calls' = [calls EXCEPT ![c] =
                    [pc |-> "update", id |-> call.id,
                     data |-> ConfirmData(call.invoice,
                                  CountNonDraft(invoices, UserCompanyId(call.user),
                                                call.invoice.invoiceSeries),
                                  now)]]
    /\ UNCHANGED <<invoices, nextId, now, last>>

\* invoice.update({ where: { id }, data }) reaches the table; a missing row
\* makes it throw.  No unique index can refuse the write: every draft of a
\* series is stored with the same invoiceNumber '' (line 140).
ConfirmWrite(c) ==
    LET call == calls[c] IN
    /\ call.pc = "update"
    /\ IF Exists(call.id)
       THEN /\ invoices' = [invoices EXCEPT
                               ![call.id] = PrismaUpdate(invoices[call.id], call.data)]
            /\ last' = Result("confirm", call.id, "ok")
       ELSE /\ last' = Result("confirm", call.id, "RecordNotFound")
            /\ UNCHANGED invoices
    /\ calls' = [calls EXCEPT ![c] = IdleCall]
    /\ UNCHANGED <<nextId, now>>

NextConc ==
    \/ \E u \in Users, dto \in DraftDtos : Create(u, dto) /\ UNCHANGED <<assigned, users, invitations>>
    \/ \E c \in CallIds, u \in Users, i \in Ids : ConfirmStart(c, u, i) /\ UNCHANGED <<assigned, users, invitations>>
    \/ \E c \in CallIds : ConfirmCount(c) /\ UNCHANGED <<assigned, users, invitations>>
    \/ \E c \in CallIds : ConfirmWrite(c) /\ UNCHANGED <<assigned, users, invitations>>
    \/ Tick /\ UNCHANGED <<assigned, users, invitations>>

SpecConc == Init /\ [][NextConc]_vars

(***************************************************************************)
(* Properties                                                              *)
(***************************************************************************)
NonDraft(i) == Exists(i) /\ invoices[i].status # "DRAFT"

SameSeries(i, j) ==
    /\ invoices[i].companyId = invoices[j].companyId
    /\ invoices[i].invoiceSeries = invoices[j].invoiceSeries

\* Number('0007'): the value of a string of decimal digits.
RECURSIVE NumberValue(_)
NumberValue(s) ==
    IF s = <<>> THEN 0 ELSE 10 * NumberValue(SubSeq(s, 1, Len(s) - 1)) + s[Len(s)]

NotDraftError == "BadRequest: Only draft invoices can be confirmed"
NotPendingError == "BadRequest: Only pending invoices can be marked as paid"
NotYoursError == "BadRequest: Invoice does not belong to your company"

\* C1: no two invoices of the same tenant and the same series whose status is
\* not DRAFT carry the same number (here: the same assigned, non-empty number).
C1_UniqueNumber ==
    \A i, j \in Ids :
        (i # j /\ NonDraft(i) /\ NonDraft(j) /\ SameSeries(i, j)
               /\ invoices[i].invoiceNumber # EmptyNumber)
            => invoices[i].invoiceNumber # invoices[j].invoiceNumber

\* C2: once overlapping confirm calls on drafts of one (tenant, series) have
\* all returned, no two of the invoices they confirmed carry the same number
\* (the numbers 0001 .. 000N are pairwise different).
C2_ConcurrentNumbers ==
    (\A c \in CallIds : calls[c].pc = "idle") =>
        \A i, j \in Ids :
            (i # j /\ NonDraft(i) /\ NonDraft(j) /\ SameSeries(i, j))
                => invoices[i].invoiceNumber # invoices[j].invoiceNumber

\* C3: an invoice's number is non-empty if and only if its stored status is
\* not DRAFT.
C3_NumberIffNotDraft ==
    \A i \in Ids :
        Exists(i) => (invoices[i].invoiceNumber # EmptyNumber <=> invoices[i].status # "DRAFT")

\* C4: within one (tenant, series) the first number assigned is "0001" and
\* every later assignment, by confirm or by create, yields a number strictly
\* greater than every number assigned before it in that series.
C4_StrictlyIncreasing ==
    [][Assigns =>
         LET inv    == invoices'[last'.id]
             before == assigned[<<inv.companyId, inv.invoiceSeries>>]
         IN  /\ before = {} => inv.invoiceNumber = <<0, 0, 0, 1>>
             /\ \A n \in before : NumberValue(inv.invoiceNumber) > NumberValue(n)]_vars

\* C5: a confirm that directly follows a successful confirm of the same
\* invoice fails, with the only-draft error for a caller that has a company,
\* and changes no field of any invoice.
C5_SecondConfirmFails ==
    [][\A u \in Users :
         (last.op = "confirm" /\ last.res = "ok" /\ Confirm(u, last.id))
            => /\ last'.res # "ok"
               /\ UserCompanyId(u) # NoCompany => last'.res = NotDraftError
               /\ invoices' = invoices]_vars

\* C5 witness: the second confirm was refused and the invoice keeps the number
\* and the status that the first one gave it.
C5_Witness ==
    /\ last.op = "confirm" /\ last.res = NotDraftError
    /\ invoices[last.id].status = "PENDING"
    /\ invoices[last.id].invoiceNumber = <<0, 0, 0, 1>>
    /\ invoices[last.id].emissionDate < now

\* C6: confirm succeeds only on a DRAFT invoice of the caller's tenant; in
\* every other case it throws and leaves every invoice unchanged.
C6_ConfirmGuard ==
    [][\A u \in Users, i \in Ids :
         Confirm(u, i) =>
            LET legal == /\ Exists(i)
                         /\ invoices[i].status = "DRAFT"
                         /\ invoices[i].companyId = UserCompanyId(u)
            IN  /\ last'.res = "ok" => legal
                /\ ~legal => /\ last'.res # "ok"
                             /\ invoices' = invoices]_vars

\* C6 witness: a confirm on another tenant's draft was refused and the draft
\* is still a draft without a number.
C6_Witness ==
    /\ last.op = "confirm" /\ last.res = NotYoursError
    /\ invoices[last.id].status = "DRAFT"
    /\ invoices[last.id].invoiceNumber = EmptyNumber

\* C7: pay succeeds only on a PENDING invoice: on a DRAFT and on a PAID
\* invoice it throws, and a call that throws leaves every invoice unchanged.
C7_PayGuard ==
    [][\A u \in Users, i \in Ids :
         Pay(u, i) =>
            /\ last'.res = "ok" => (Exists(i) /\ invoices[i].status = "PENDING")
            /\ (Exists(i) /\ invoices[i].status \in {"DRAFT", "PAID"}) => last'.res # "ok"
            /\ last'.res # "ok" => invoices' = invoices]_vars

\* C7 witness: pay on an invoice that is already PAID was refused.
C7_Witness ==
    /\ last.op = "pay" /\ last.res = NotPendingError
    /\ invoices[last.id].status = "PAID"

\* C8: a successful pay sets the status of its invoice to PAID and changes
\* no other field of it and no other invoice.
C8_PayFrame ==
    [][\A u \in Users, i \in Ids :
         (Pay(u, i) /\ last'.res = "ok")
            => invoices' = [invoices EXCEPT ![i] = [invoices[i] EXCEPT !.status = "PAID"]]]_vars

\* C8 witness: a pay succeeded on an invoice that was confirmed on an earlier
\* day, while another invoice exists.
C8_Witness ==
    /\ last.op = "pay" /\ last.res = "ok"
    /\ invoices[last.id].status = "PAID"
    /\ invoices[last.id].emissionDate < now
    /\ \E j \in Ids : j # last.id /\ Exists(j)

StatusRank(st) == CASE st = "DRAFT" -> 0 [] st = "PENDING" -> 1 [] st = "PAID" -> 2

\* C9: the stored status of an invoice never moves backwards: no step takes
\* it from PAID to PENDING or DRAFT, or from PENDING to DRAFT.
C9_StatusNeverBackwards ==
    [][\A i \in Ids :
         (Exists(i) /\ invoices'[i] # NoInvoice)
            => StatusRank(invoices'[i].status) >= StatusRank(invoices[i].status)]_vars

\* C10: no call changes the number or the series of an invoice whose status
\* is not DRAFT.
C10_NumberSeriesImmutable ==
    [][\A i \in Ids :
         (NonDraft(i) /\ invoices'[i] # NoInvoice)
            => /\ invoices'[i].invoiceNumber = invoices[i].invoiceNumber
               /\ invoices'[i].invoiceSeries = invoices[i].invoiceSeries]_vars

(***************************************************************************)
(* InvoicesController: PATCH :id and DELETE :id sit behind the JWT guard   *)
(* like every route, and hand the service the id (and body) only.          *)
(***************************************************************************)
UpdateRoute(u, i, dto) == Update(i, dto)

RemoveRoute(u, i) == Remove(i)

\* One call made by caller u.
CalledBy(u) ==
    \/ \E dto \in CreateDtos : Create(u, dto)
    \/ \E i \in Ids : Confirm(u, i)
    \/ \E i \in Ids : Pay(u, i)
    \/ \E i \in Ids, dto \in UpdateDtos : UpdateRoute(u, i, dto)
    \/ \E i \in Ids : RemoveRoute(u, i)

\* The number the next confirmation in (companyId, series) is given.
NextNumberIn(tbl, companyId, series) == FormatNumber(CountNonDraft(tbl, companyId, series))

IsDraft(i) == Exists(i) /\ invoices[i].status = "DRAFT"

\* C11: creating, updating or removing a DRAFT invoice does not change the
\* number that the next confirmation is assigned in any (tenant, series).
C11_DraftsConsumeNoNumber ==
    [][(\/ \E u \in Users, dto \in DraftDtos : Create(u, dto)
        \/ \E i \in Ids, dto \in UpdateDtos : IsDraft(i) /\ Update(i, dto)
        \/ \E i \in Ids : IsDraft(i) /\ Remove(i))
         => \A co \in Companies, se \in SeriesNames :
                NextNumberIn(invoices', co, se) = NextNumberIn(invoices, co, se)]_vars

\* C12: a call made by a caller of tenant T leaves every stored invoice of
\* another tenant as it was (not modified, not deleted).
C12_TenantIsolation ==
    [][\A u \in Users :
         (UserCompanyId(u) # NoCompany /\ CalledBy(u))
            => \A i \in Ids :
                  (Exists(i) /\ invoices[i].companyId # UserCompanyId(u))
                      => invoices'[i] = invoices[i]]_vars

\* C13: a call made by a caller that has no company throws and changes no
\* stored invoice.
C13_NoTenantIsError ==
    [][\A u \in Users :
         (UserCompanyId(u) = NoCompany /\ CalledBy(u))
            => (last'.res # "ok" /\ invoices' = invoices)]_vars

(***************************************************************************)
(* SpecEdit: calls one after the other, with request bodies that carry     *)
(* dates, due-day counts and items.                                        *)
(***************************************************************************)
ItemsB == << [name |-> "note", quantity |-> 0, price |-> 50],
             [name |-> "parts", quantity |-> 1, price |-> 30, taxRate |-> 10] >>

EmissionFields == {EmptyDto, [emissionDate |-> 1]}
DueDaysFields == {EmptyDto, [dueDays |-> 7]}
ItemsFields == {EmptyDto, [items |-> ItemsB]}

EditCreateDtos ==
    {[items |-> ItemsA] @@ a @@ b @@ c @@ d :
        a \in SeriesFields, b \in StatusFields, c \in EmissionFields, d \in DueDaysFields}

EditUpdateDtos == {a @@ b @@ c : a \in EmissionFields, b \in DueDaysFields, c \in ItemsFields}

Editors == {"u1"}

NextEdit ==
    \/ \E u \in Editors, dto \in EditCreateDtos : Create(u, dto) /\ UNCHANGED <<assigned, users, invitations>>
    \/ \E u \in Editors, i \in Ids : Confirm(u, i) /\ UNCHANGED <<assigned, users, invitations>>
    \/ \E i \in Ids, dto \in EditUpdateDtos : Update(i, dto) /\ UNCHANGED <<assigned, users, invitations>>
    \/ Tick /\ UNCHANGED <<assigned, users, invitations>>

SpecEdit == Init /\ [][NextEdit]_vars

\* C14: in every reachable state the due date of a non-DRAFT invoice is its
\* emission date plus its due-day count (the base date of a DRAFT is the day
\* of a write, which the rows do not record); an update that changes only
\* the emission date has to recompute the due date for this to hold.
C14_DueDateFromBase ==
    \A i \in Ids :
        NonDraft(i) => invoices[i].dueDate = AddDays(invoices[i].emissionDate, invoices[i].dueDays)

\* C15: an update that patches dueDays (and not the emission date) of an
\* invoice whose stored status is not DRAFT stores dueDate = the stored
\* emissionDate + the new dueDays; on a stored DRAFT it stores
\* dueDate = the current day + the new dueDays.
C15_DueDaysFromStoredEmission ==
    [][\A i \in Ids, dto \in EditUpdateDtos :
         (/\ Update(i, dto) /\ last'.res = "ok"
          /\ Has(dto, "dueDays") /\ ~Has(dto, "emissionDate"))
            => /\ invoices'[i].dueDays = dto.dueDays
               /\ invoices'[i].emissionDate = invoices[i].emissionDate
               /\ invoices'[i].dueDate =
                     IF invoices[i].status = "DRAFT"
                     THEN AddDays(now, dto.dueDays)
                     ELSE AddDays(invoices[i].emissionDate, dto.dueDays)]_vars

\* C15 witness: dueDays of a PENDING invoice was updated on a day later than
\* its emission date, and the due date counts from the emission date.
C15_Witness ==
    /\ last.op = "update" /\ last.res = "ok"
    /\ invoices[last.id].status = "PENDING"
    /\ invoices[last.id].emissionDate < now
    /\ invoices[last.id].dueDays = 7
    /\ invoices[last.id].dueDate = AddDays(invoices[last.id].emissionDate, 7)
    /\ invoices[last.id].dueDate # AddDays(now, 7)

\* C16: a successful create stores the series of the request or the current
\* year and the due-day count of the request or 30; when the requested
\* status is DRAFT or absent it stores status DRAFT, an empty number and the
\* epoch-zero emission date; when a non-DRAFT status is requested it stores
\* that status, the next number of the (tenant, series), i.e. the count of
\* its non-DRAFT rows plus one padded to four digits, and the emission date
\* of the request or the current day.
C16_CreateStores ==
    [][\A u \in Editors, dto \in EditCreateDtos :
         (Create(u, dto) /\ last'.res = "ok")
            => LET row    == invoices'[nextId]
                   series == IF Has(dto, "invoiceSeries") THEN dto.invoiceSeries ELSE "2026"
               IN  /\ row.companyId = UserCompanyId(u)
                   /\ row.invoiceSeries = series
                   /\ row.dueDays = IF Has(dto, "dueDays") THEN dto.dueDays ELSE 30
                   /\ (~Has(dto, "status") \/ dto.status = "DRAFT")
                         => /\ row.status = "DRAFT"
                            /\ row.invoiceNumber = EmptyNumber
                            /\ row.emissionDate = EpochZero
                   /\ (Has(dto, "status") /\ dto.status # "DRAFT")
                         => /\ row.status = dto.status
                            /\ Len(row.invoiceNumber) = PadWidth
                            /\ NumberValue(row.invoiceNumber)
                                  = CountNonDraft(invoices, UserCompanyId(u), series) + 1
                            /\ row.emissionDate = IF Has(dto, "emissionDate")
                                                  THEN dto.emissionDate ELSE now]_vars

\* C16 witness: the last call created a second non-DRAFT invoice of the
\* current-year series with the default due-day count and an emission date
\* earlier than the day of the call.
C16_Witness ==
    /\ last.op = "create" /\ last.res = "ok"
    /\ invoices[last.id].status = "PENDING"
    /\ invoices[last.id].invoiceSeries = CurrentYear(now)
    /\ invoices[last.id].invoiceNumber = <<0, 0, 0, 2>>
    /\ invoices[last.id].emissionDate < now
    /\ invoices[last.id].dueDays = DefaultDueDays

\* The items of a row, as a set.
ItemSet(items) == {items[k] : k \in 1..Len(items)}

\* C17: after a successful update whose patch has items, the items of the
\* invoice are exactly those of the patch, one row per patch item with its
\* name, quantity and price and with its tax rate or 21 when it has none, and
\* no row of the previous items that the patch does not also describe
\* remains; after one whose patch has no items field they are unchanged.
C17_ItemsReplaced ==
    [][\A i \in Ids, dto \in EditUpdateDtos :
         (Update(i, dto) /\ last'.res = "ok")
            => IF Has(dto, "items")
               THEN LET new == invoices'[i].items IN
                    /\ Len(new) = Len(dto.items)
                    /\ \A k \in 1..Len(new) :
                          /\ new[k].name = dto.items[k].name
                          /\ new[k].quantity = dto.items[k].quantity
                          /\ new[k].price = dto.items[k].price
                          /\ new[k].taxRate = IF "taxRate" \in DOMAIN dto.items[k]
                                              THEN dto.items[k].taxRate ELSE 21
                    /\ \A old \in ItemSet(invoices[i].items) :
                          old \in ItemSet(new) => \E k \in 1..Len(dto.items) :
                                                     old.name = dto.items[k].name
               ELSE invoices'[i].items = invoices[i].items]_vars

\* C17 witness: the last call was an update that left the invoice with the
\* two items of its patch, the first with the default tax rate, and without
\* the item it was created with.
C17_Witness ==
    /\ last.op = "update" /\ last.res = "ok"
    /\ Len(invoices[last.id].items) = 2
    /\ invoices[last.id].items[1] = [name |-> "note", quantity |-> 0, price |-> 50, taxRate |-> 21]
    /\ invoices[last.id].items[2].taxRate = 10
    /\ \A k \in 1..2 : invoices[last.id].items[k].name # "work"

(***************************************************************************)
(* SpecRemove: calls one after the other, with remove taken one await at a *)
(* time: invoice.findUnique, invoiceItem.deleteMany, invoice.delete.       *)
(***************************************************************************)
NoCallInFlight == \A c \in CallIds : calls[c] = IdleCall

\* Variant: deleteMany removes no item row.
DeleteItemsNothing(tbl, id) == tbl

\* prisma.invoiceItem.deleteMany({ where: { invoiceId: id } })
DeleteItems(tbl, id) == [tbl EXCEPT ![id] = [@ EXCEPT !.items = <<>>]]

\* prisma.invoice.delete({ where: { id } })
DeleteInvoice(tbl, id) == [tbl EXCEPT ![id] = NoInvoice]

RemoveFind(c, i) ==
    LET inv == invoices[i]
        err == RemoveError(inv)
    IN  /\ NoCallInFlight
        /\ IF err = "ok"
           THEN /\ calls' = [calls EXCEPT ![c] = [pc |-> "deleteItems", id |-> i]]
                /\ UNCHANGED last
           ELSE /\ last' = Result("remove", i, err)
                /\ UNCHANGED calls
        /\ UNCHANGED <<invoices, nextId, now>>

RemoveItems(c) ==
    LET call == calls[c] IN
    /\ call.pc = "deleteItems"
    /\ invoices' = DeleteItems(invoices, call.id)
    /\ calls' = [calls EXCEPT ![c] = [pc |-> "deleteInvoice", id |-> call.id]]
    /\ UNCHANGED <<nextId, now, last>>

RemoveInvoice(c) ==
    LET call == calls[c] IN
    /\ call.pc = "deleteInvoice"
    /\ invoices' = DeleteInvoice(invoices, call.id)
    /\ last' = Result("remove", call.id, "ok")
    /\ calls' = [calls EXCEPT ![c] = IdleCall]
    /\ UNCHANGED <<nextId, now>>

NextRemove ==
    \/ \E u \in Editors, dto \in CreateDtos :
          NoCallInFlight /\ Create(u, dto) /\ UNCHANGED <<assigned, users, invitations>>
    \/ \E i \in Ids, dto \in ItemsFields :
          NoCallInFlight /\ Update(i, dto) /\ UNCHANGED <<assigned, users, invitations>>
    \/ \E c \in CallIds, i \in Ids : RemoveFind(c, i) /\ UNCHANGED <<assigned, users, invitations>>
    \/ \E c \in CallIds : RemoveItems(c) /\ UNCHANGED <<assigned, users, invitations>>
    \/ \E c \in CallIds : RemoveInvoice(c) /\ UNCHANGED <<assigned, users, invitations>>
    \/ NoCallInFlight /\ Tick /\ UNCHANGED <<assigned, users, invitations>>

SpecRemove == Init /\ [][NextRemove]_vars

OthersUnchanged(i) == \A j \in Ids \ {i} : invoices'[j] = invoices[j]

\* C18: the step of remove(id) that deletes the invoice finds no item of it
\* left (the items went first), leaves neither the invoice nor an item of
\* it, returns successfully and changes no other invoice or item; the step
\* that deletes the items changes nothing else; remove of an unknown id
\* fails with a not-found error, deletes nothing and starts no deletion.
C18_RemoveCascades ==
    [][/\ \A c \in CallIds :
            RemoveInvoice(c)
               => /\ invoices[calls[c].id].items = <<>>
                  /\ invoices'[calls[c].id] = NoInvoice
                  /\ last' = Result("remove", calls[c].id, "ok")
                  /\ OthersUnchanged(calls[c].id)
       /\ \A c \in CallIds :
            RemoveItems(c)
               => /\ invoices'[calls[c].id] = [invoices[calls[c].id] EXCEPT !.items = <<>>]
                  /\ OthersUnchanged(calls[c].id)
       /\ \A c \in CallIds, i \in Ids :
            (RemoveFind(c, i) /\ ~Exists(i))
               => /\ last' = Result("remove", i, "NotFound")
                  /\ invoices' = invoices
                  /\ calls' = calls]_vars

\* C18 witness: a remove has just returned successfully for an invoice that
\* is gone, while the other invoice still has the two items it was given.
C18_Witness ==
    /\ last.op = "remove" /\ last.res = "ok"
    /\ NoCallInFlight
    /\ ~Exists(last.id)
    /\ \E j \in Ids : Exists(j) /\ Len(invoices[j].items) = 2

(***************************************************************************)
(* SpecStats: InvoicesService.getDashboardStats over tables of stored      *)
(* invoices.  The metrics are a function of the table, the caller and the  *)
(* clock, so the tables are drawn in the initial state.                    *)
(***************************************************************************)
MaxRows == 3

RowIds == 1..MaxRows

\* Items per stored status, with totals 100, 50 and 30.
ItemsOf(st) ==
    CASE st = "PAID"    -> << [name |-> "work", quantity |-> 1, price |-> 100, taxRate |-> 0] >>
      [] st = "DRAFT"   -> << [name |-> "work", quantity |-> 2, price |-> 25, taxRate |-> 0] >>
      [] st = "PENDING" -> << [name |-> "work", quantity |-> 1, price |-> 25, taxRate |-> 20] >>

\* Due dates: the first day (past once a day has gone by) and a later day.
DueDates == {1, 1 + DefaultDueDays}

\* The row with id i of a table: what create, confirm and pay leave behind.
StoredRow(i, companyId, st, due) ==
    LET dueDays == IF due = 1 THEN 1 ELSE DefaultDueDays IN
    [companyId     |-> companyId,
     invoiceSeries |-> CurrentYear(1),
     invoiceNumber |-> IF st = "DRAFT" THEN EmptyNumber ELSE FormatNumber(i - 1),
     status        |-> st,
     emissionDate  |-> IF st = "DRAFT" THEN EpochZero ELSE due - dueDays,
     dueDays       |-> dueDays,
     dueDate       |-> due,
     items         |-> ItemRows(ItemsOf(st))]

StoredRows(i) ==
    {NoInvoice} \cup {StoredRow(i, co, st, due) : co \in Companies, st \in Statuses, due \in DueDates}

\* calculateInvoiceTotalWithTax: items.reduce over subtotal + tax.
RECURSIVE ItemsTotalWithTax(_)
ItemsTotalWithTax(items) ==
    IF items = <<>> THEN 0
    ELSE LET item         == items[Len(items)]
             itemSubtotal == item.price * item.quantity
             itemTax      == (itemSubtotal * item.taxRate) \div 100
         IN  ItemsTotalWithTax(SubSeq(items, 1, Len(items) - 1)) + itemSubtotal + itemTax

CalculateInvoiceTotalWithTax(invoice) == ItemsTotalWithTax(invoice.items)

\* prisma.invoice.findMany({ where: { companyId } }), in id order.
RECURSIVE FindManyUpTo(_, _, _)
FindManyUpTo(tbl, companyId, n) ==
    IF n = 0 THEN <<>>
    ELSE LET rest == FindManyUpTo(tbl, companyId, n - 1) IN
         IF tbl[n] # NoInvoice /\ tbl[n].companyId = companyId
         THEN Append(rest, tbl[n]) ELSE rest

FindMany(tbl, companyId) == FindManyUpTo(tbl, companyId, Len(tbl))

\* Variant: every invoice past its due date is overdue, paid or not.
IsOverdueWhateverStatus(i, today) == i.status = "OVERDUE" \/ i.dueDate < today

\* The overdue filter (lines 57-61).
IsOverdue(i, today) ==
    i.status = "OVERDUE" \/ (i.dueDate < today /\ i.status # "PAID")

\* array.reduce((sum, i) => sum + calculateInvoiceTotalWithTax(i), 0)
RECURSIVE SumTotals(_)
SumTotals(list) ==
    IF list = <<>> THEN 0
    ELSE SumTotals(SubSeq(list, 1, Len(list) - 1))
            + CalculateInvoiceTotalWithTax(list[Len(list)])

Metrics(tbl, companyId, today) ==
    LET all       == FindMany(tbl, companyId)
        HasStatus(st) == LET Test(i) == i.status = st IN SelectSeq(all, Test)
        OverdueTest(i) == IsOverdue(i, today)
        paid      == HasStatus("PAID")
        overdue   == SelectSeq(all, OverdueTest)
        drafts    == HasStatus("DRAFT")
        pending   == HasStatus("PENDING")
    IN  [totalRevenue      |-> SumTotals(paid),
         outstandingAmount |-> SumTotals(overdue \o drafts \o pending),
         invoiceCount      |-> [total   |-> Len(all),
                                paid    |-> Len(paid),
                                overdue |-> Len(overdue),
                                draft   |-> Len(drafts),
                                pending |-> Len(pending)]]

StatsError(u) ==
    IF UserCompanyId(u) = NoCompany
    THEN "BadRequest: User must be associated with a company to view dashboard"
    ELSE "ok"

GetDashboardStats(u) ==
    LET err == StatsError(u) IN
    /\ last' = IF err = "ok"
               THEN Result("getDashboardStats", 0, "ok")
                       @@ [metrics |-> Metrics(invoices, UserCompanyId(u), now)]
               ELSE Result("getDashboardStats", 0, err)
    /\ UNCHANGED <<invoices, nextId, now, calls>>

InitStats ==
    /\ invoices \in {tbl \in [RowIds -> UNION {StoredRows(i) : i \in RowIds}] :
                        \A i \in RowIds : tbl[i] \in StoredRows(i)}
    /\ nextId = MaxRows + 1
    /\ now = 1
    /\ last = Result("none", 0, "ok")
    /\ assigned = [k \in Companies \X SeriesNames |-> {}]
    /\ users = StoredUsers
    /\ invitations = NoInvitations
    /\ calls = [c \in 1..MaxCalls |-> IdleCall]

NextStats ==
    \/ \E u \in Users : GetDashboardStats(u) /\ UNCHANGED <<assigned, users, invitations>>
    \/ Tick /\ UNCHANGED <<assigned, users, invitations>>

SpecStats == InitStats /\ [][NextStats]_vars

\* The ids of the stored invoices of a tenant.
RowsOf(companyId) == {i \in RowIds : invoices[i] # NoInvoice /\ invoices[i].companyId = companyId}

RowsWithStatus(companyId, st) == {i \in RowsOf(companyId) : invoices[i].status = st}

OverdueRows(companyId) ==
    {i \in RowsOf(companyId) :
        invoices[i].status = "OVERDUE" \/ (invoices[i].dueDate < now /\ invoices[i].status # "PAID")}

\* The sum of totalWithTax over a set of invoices, each counted once.
RECURSIVE TotalOver(_)
TotalOver(ids) ==
    IF ids = {} THEN 0
    ELSE LET i == CHOOSE x \in ids : TRUE
         IN  CalculateInvoiceTotalWithTax(invoices[i]) + TotalOver(ids \ {i})

\* The tenant of the example: one PAID, one DRAFT and one overdue PENDING.
ExampleTenant(companyId) ==
    /\ Cardinality(RowsOf(companyId)) = 3
    /\ \A st \in Statuses : Cardinality(RowsWithStatus(companyId, st)) = 1
    /\ \A i \in RowsWithStatus(companyId, "PENDING") : invoices[i].dueDate < now
    /\ \A i \in RowsWithStatus(companyId, "DRAFT") : ~(invoices[i].dueDate < now)

\* C19: the metrics a successful getDashboardStats returns have totalRevenue
\* = the sum of totalWithTax over the tenant's PAID invoices and
\* outstandingAmount = the sum of totalWithTax over the union of its overdue,
\* DRAFT and PENDING invoices, each invoice counted once; for the tenant with
\* one PAID (100), one DRAFT (50) and one overdue PENDING (30) invoice they
\* are 100 and 80.
C19_StatsAmounts ==
    [][\A u \in Users :
         (GetDashboardStats(u) /\ last'.res = "ok")
            => LET co == UserCompanyId(u) IN
               /\ last'.metrics.totalRevenue = TotalOver(RowsWithStatus(co, "PAID"))
               /\ last'.metrics.outstandingAmount
                     = TotalOver(OverdueRows(co) \cup RowsWithStatus(co, "DRAFT")
                                    \cup RowsWithStatus(co, "PENDING"))
               /\ ExampleTenant(co) => /\ last'.metrics.totalRevenue = 100
                                       /\ last'.metrics.outstandingAmount = 80]_vars

\* C20: the counts a successful getDashboardStats returns are tallied
\* independently: total is the number of the tenant's invoices; paid, draft
\* and pending are the numbers of its invoices with that stored status;
\* overdue is the number of its invoices with status OVERDUE or with
\* dueDate < now and a status other than PAID, so an invoice that is DRAFT
\* or PENDING and past its due date is in overdue and in its status count,
\* and no PAID invoice is in overdue.
C20_StatsCounts ==
    [][\A u \in Users :
         (GetDashboardStats(u) /\ last'.res = "ok")
            => LET co    == UserCompanyId(u)
                   count == last'.metrics.invoiceCount
                   late  == {i \in RowsOf(co) : invoices[i].dueDate < now}
               IN  /\ count.total = Cardinality(RowsOf(co))
                   /\ count.paid = Cardinality(RowsWithStatus(co, "PAID"))
                   /\ count.draft = Cardinality(RowsWithStatus(co, "DRAFT"))
                   /\ count.pending = Cardinality(RowsWithStatus(co, "PENDING"))
                   /\ count.overdue = Cardinality(OverdueRows(co))
                   /\ count.overdue = Cardinality(late \ RowsWithStatus(co, "PAID"))
                   /\ count.paid + count.draft + count.pending + count.overdue
                         = count.total + Cardinality(late \ RowsWithStatus(co, "PAID"))]_vars

\* C20 witness: the last call returned counts for a tenant with a PAID, a
\* DRAFT and a PENDING invoice, all three past their due date: two overdue,
\* one of each status.
C20_Witness ==
    /\ last.op = "getDashboardStats" /\ last.res = "ok"
    /\ now > 1
    /\ \E co \in Companies :
          /\ Cardinality(RowsOf(co)) = 3
          /\ \A st \in Statuses : Cardinality(RowsWithStatus(co, st)) = 1
          /\ \A i \in RowsOf(co) : invoices[i].dueDate < now
    /\ last.metrics.invoiceCount =
          [total |-> 3, paid |-> 1, overdue |-> 2, draft |-> 1, pending |-> 1]

(***************************************************************************)
(* SpecTotals: InvoicesService.calculateInvoiceTotals over item lists.     *)
(* The totals are a function of the items, so the item lists are drawn in  *)
(* the initial state.  Prices, quantities and rates are integers; amounts  *)
(* are kept in hundredths, which makes itemBase * (taxRate / 100) exact.   *)
(***************************************************************************)
MaxItems == 3

Prices == {50, 100}
Quantities == {0, 1, 2}
TaxRates == {10, 21}

TotalsItems ==
    {[name |-> "work", quantity |-> q, price |-> p, taxRate |-> r] :
        q \in Quantities, p \in Prices, r \in TaxRates}

ItemLists == UNION {[1..n -> TotalsItems] : n \in 0..MaxItems}

\* taxRate.toFixed(2): the digits of the rate and two decimals.
ToFixed2(rate) == [int |-> DecimalString(rate), frac |-> <<0, 0>>]

\* Number(rate) of a key made by toFixed(2).
KeyNumber(key) == NumberValue(key.int)

\* The position of a key in the Map's insertion order, 0 when it has none.
KeyIndex(entries, key) ==
    IF \E k \in 1..Len(entries) : entries[k].key = key
    THEN CHOOSE k \in 1..Len(entries) : entries[k].key = key
    ELSE 0

\* Variant: taxBreakdown.set puts every item under a key of its own.
MapSetAlwaysNew(entries, key, value) ==
    Append(entries, [key |-> key, base |-> value.base, tax |-> value.tax])

\* taxBreakdown.set(key, value): a new key goes last, a known key keeps its place.
MapSet(entries, key, value) ==
    LET k == KeyIndex(entries, key) IN
    IF k = 0
    THEN Append(entries, [key |-> key, base |-> value.base, tax |-> value.tax])
    ELSE [entries EXCEPT ![k] = [key |-> key, base |-> value.base, tax |-> value.tax]]

\* taxBreakdown.get(key) || { base: 0, tax: 0 }
MapGet(entries, key) ==
    LET k == KeyIndex(entries, key) IN
    IF k = 0 THEN [base |-> 0, tax |-> 0] ELSE [base |-> entries[k].base, tax |-> entries[k].tax]

\* itemBase and itemTax of lines 484-486, in hundredths.
ItemBase(item) == item.price * item.quantity * 100
ItemTax(item) == item.price * item.quantity * item.taxRate

\* The state of the forEach loop of lines 483-498 after the given items.
RECURSIVE TotalsLoop(_)
TotalsLoop(items) ==
    IF items = <<>>
    THEN [baseAmount |-> 0, totalTax |-> 0, taxBreakdown |-> <<>>]
    ELSE LET acc      == TotalsLoop(SubSeq(items, 1, Len(items) - 1))
             item     == items[Len(items)]
             key      == ToFixed2(item.taxRate)
             existing == MapGet(acc.taxBreakdown, key)
         IN  [baseAmount   |-> acc.baseAmount + ItemBase(item),
              totalTax     |-> acc.totalTax + ItemTax(item),
              taxBreakdown |-> MapSet(acc.taxBreakdown, key,
                                      [base |-> existing.base + ItemBase(item),
                                       tax  |-> existing.tax + ItemTax(item)])]

\* Variant: the tax is charged on the whole base at the rate of the first item.
CalculateInvoiceTotalsFlatRate(invoice) ==
    LET acc  == TotalsLoop(invoice.items)
        rate == IF invoice.items = <<>> THEN 0 ELSE invoice.items[1].taxRate
        tax  == (acc.baseAmount * rate) \div 100
    IN  [baseAmount   |-> acc.baseAmount,
         totalTax     |-> tax,
         totalWithTax |-> acc.baseAmount + tax,
         taxBreakdown |-> <<>>]

CalculateInvoiceTotals(invoice) ==
    LET acc == TotalsLoop(invoice.items) IN
    [baseAmount   |-> acc.baseAmount,
     totalTax     |-> acc.totalTax,
     totalWithTax |-> acc.baseAmount + acc.totalTax,
     taxBreakdown |-> [k \in 1..Len(acc.taxBreakdown) |->
                          [rate |-> KeyNumber(acc.taxBreakdown[k].key),
                           base |-> acc.taxBreakdown[k].base,
                           tax  |-> acc.taxBreakdown[k].tax]]]

\* amount.toFixed(2) of an amount kept in hundredths.
AmountToFixed2(amount) ==
    [int |-> DecimalString(amount \div 100), frac |-> <<(amount % 100) \div 10, amount % 10>>]

EmptyText == <<>>                   \* ''

CurrencySymbol == "EUR-symbol"      \* getCurrencySymbol(invoice.currency)

\* Variant: the numbers of a row are drawn whatever the quantity.
ItemRowCellsAlwaysNumbers(item) ==
    [quantity |-> DecimalString(item.quantity),
     code     |-> EmptyText,
     article  |-> item.name,
     price    |-> <<ToFixed2(item.price), CurrencySymbol>>,
     taxRate  |-> <<DecimalString(item.taxRate), "%">>,
     subtotal |-> <<AmountToFixed2(ItemBase(item)), CurrencySymbol>>,
     total    |-> <<AmountToFixed2(ItemBase(item) + ItemTax(item)), CurrencySymbol>>]

\* The texts drawn for one item (lines 823-860), column by column.
ItemRowCells(item) ==
    LET isZeroQuantity == item.quantity = 0
        Shown(text)    == IF isZeroQuantity THEN EmptyText ELSE text
    IN  [quantity |-> Shown(DecimalString(item.quantity)),
         code     |-> EmptyText,
         article  |-> item.name,
         price    |-> Shown(<<ToFixed2(item.price), CurrencySymbol>>),
         taxRate  |-> Shown(<<DecimalString(item.taxRate), "%">>),
         subtotal |-> Shown(<<AmountToFixed2(ItemBase(item)), CurrencySymbol>>),
         total    |-> Shown(<<AmountToFixed2(ItemBase(item) + ItemTax(item)), CurrencySymbol>>)]

\* totalQuantity of lines 797 and 804.
RECURSIVE TotalQuantity(_)
TotalQuantity(items) ==
    IF items = <<>> THEN 0
    ELSE TotalQuantity(SubSeq(items, 1, Len(items) - 1)) + items[Len(items)].quantity

\* What drawItemsTable draws: a row per item, then the total row.
DrawItemsTable(invoice) ==
    [rows          |-> [k \in 1..Len(invoice.items) |-> ItemRowCells(invoice.items[k])],
     totalQuantity |-> TotalQuantity(invoice.items),
     totals        |-> CalculateInvoiceTotals(invoice)]

ItemsTableCall(i) ==
    /\ invoices[i] # NoInvoice
    /\ last' = Result("drawItemsTable", i, "ok") @@ [table |-> DrawItemsTable(invoices[i])]
    /\ UNCHANGED <<invoices, nextId, now, calls>>

\* A call of calculateInvoiceTotals on a stored invoice (lines 871, 890, 945).
TotalsCall(i) ==
    /\ invoices[i] # NoInvoice
    /\ last' = Result("calculateInvoiceTotals", i, "ok")
                  @@ [totals |-> CalculateInvoiceTotals(invoices[i])]
    /\ UNCHANGED <<invoices, nextId, now, calls>>

InitTotals ==
    /\ invoices \in {[i \in RowIds |->
                        IF i = 1
                        THEN [StoredRow(1, "c1", "PENDING", 1 + DefaultDueDays)
                                 EXCEPT !.items = items]
                        ELSE NoInvoice] : items \in ItemLists}
    /\ nextId = 2
    /\ now = 1
    /\ last = Result("none", 0, "ok")
    /\ assigned = [k \in Companies \X SeriesNames |-> {}]
    /\ users = StoredUsers
    /\ invitations = NoInvitations
    /\ calls = [c \in 1..MaxCalls |-> IdleCall]

NextTotals ==
    \/ \E i \in RowIds : TotalsCall(i) /\ UNCHANGED <<assigned, users, invitations>>
    \/ \E i \in RowIds : ItemsTableCall(i) /\ UNCHANGED <<assigned, users, invitations>>
    \/ Tick /\ UNCHANGED <<assigned, users, invitations>>

SpecTotals == InitTotals /\ [][NextTotals]_vars

\* The totals of an item list.
TotalsOf(items) == CalculateInvoiceTotals([items |-> items])

FirstWithRate(items, rate) ==
    CHOOSE k \in 1..Len(items) :
        items[k].taxRate = rate /\ \A j \in 1..(k - 1) : items[j].taxRate # rate

\* The summed subtotal and the summed tax of the items at some positions.
RECURSIVE SumBaseAt(_, _)
SumBaseAt(items, positions) ==
    IF positions = {} THEN 0
    ELSE LET k == CHOOSE x \in positions : TRUE
         IN  items[k].price * items[k].quantity * 100 + SumBaseAt(items, positions \ {k})

RECURSIVE SumTaxAt(_, _)
SumTaxAt(items, positions) ==
    IF positions = {} THEN 0
    ELSE LET k == CHOOSE x \in positions : TRUE
         IN  items[k].price * items[k].quantity * items[k].taxRate
                + SumTaxAt(items, positions \ {k})

\* C22: the tax breakdown has one entry per distinct tax rate of the items,
\* in the order in which each rate first occurs in the list, and each entry
\* holds the summed subtotal and the summed tax of the items of its rate;
\* items [{100, 2, 21}, {50, 1, 10}] give base 250, tax 47, total 297 and
\* the breakdown [{21, 200, 42}, {10, 50, 5}] (amounts in hundredths).
C22_TaxBreakdown ==
    [][\A i \in RowIds :
         TotalsCall(i)
            => LET items == invoices[i].items
                   bd    == last'.totals.taxBreakdown
                   WithRate(rate) == {k \in 1..Len(items) : items[k].taxRate = rate}
               IN  /\ {bd[k].rate : k \in 1..Len(bd)} = {items[k].taxRate : k \in 1..Len(items)}
                   /\ \A k, l \in 1..Len(bd) :
                         k < l => FirstWithRate(items, bd[k].rate) < FirstWithRate(items, bd[l].rate)
                   /\ \A k \in 1..Len(bd) :
                         /\ bd[k].base = SumBaseAt(items, WithRate(bd[k].rate))
                         /\ bd[k].tax = SumTaxAt(items, WithRate(bd[k].rate))
                   /\ (/\ Len(items) = 2
                       /\ items[1].price = 100 /\ items[1].quantity = 2 /\ items[1].taxRate = 21
                       /\ items[2].price = 50 /\ items[2].quantity = 1 /\ items[2].taxRate = 10)
                         => /\ last'.totals.baseAmount = 25000
                            /\ last'.totals.totalTax = 4700
                            /\ last'.totals.totalWithTax = 29700
                            /\ bd = << [rate |-> 21, base |-> 20000, tax |-> 4200],
                                       [rate |-> 10, base |-> 5000, tax |-> 500] >>]_vars

\* C22 witness: totals were returned for items of rates 21, 10, 21 in this
\* order, with a breakdown of two entries, the entry of rate 21 first.
C22_Witness ==
    /\ last.op = "calculateInvoiceTotals"
    /\ Len(invoices[last.id].items) = 3
    /\ invoices[last.id].items[1].taxRate = 21
    /\ invoices[last.id].items[2].taxRate = 10
    /\ invoices[last.id].items[3].taxRate = 21
    /\ \A k \in 1..3 : invoices[last.id].items[k].quantity > 0
    /\ Len(last.totals.taxBreakdown) = 2
    /\ last.totals.taxBreakdown[1].rate = 21
    /\ last.totals.taxBreakdown[1].base
          = ItemBase(invoices[last.id].items[1]) + ItemBase(invoices[last.id].items[3])

(***************************************************************************)
(* SpecFind: GET /invoices over tables of stored invoices.  A string is    *)
(* the sequence of its characters; createdAt and the date filters are day  *)
(* numbers.                                                                *)
(***************************************************************************)
NoReference == <<"null">>

ToLowerChar(ch) == CASE ch = "A" -> "a" [] ch = "B" -> "b" [] OTHER -> ch

ToLower(str) == [k \in 1..Len(str) |-> ToLowerChar(str[k])]

\* reference: { contains, mode: 'insensitive' }; a null reference matches nothing.
ContainsInsensitive(str, part) ==
    /\ str # NoReference
    /\ \E k \in 0..(Len(str) - Len(part)) :
          SubSeq(ToLower(str), k + 1, k + Len(part)) = ToLower(part)

\* What a stored invoice has besides the fields of StoredRow.
RowExtras ==
    { [clientId |-> "k1", reference |-> <<"A", "b">>, createdAt |-> 1],
      [clientId |-> "k2", reference |-> NoReference, createdAt |-> 2],
      [clientId |-> "k1", reference |-> <<"b">>, createdAt |-> 2] }

FindRows(i) ==
    {NoInvoice} \cup
    {StoredRow(i, co, st, 1 + DefaultDueDays) @@ [id |-> i] @@ extra :
        co \in Companies, st \in Statuses, extra \in RowExtras}

\* Query strings of GET /invoices (FilterInvoiceDto), as the service gets them.
DateFilters == {EmptyDto, [dateFrom |-> 2], [dateTo |-> 1], [dateFrom |-> 1, dateTo |-> 1]}
StatusFilters == {EmptyDto} \cup {[status |-> st] : st \in {"DRAFT", "PENDING", "PAID", "OVERDUE"}}
ClientFilters == {EmptyDto, [clientId |-> "k1"]}
ReferenceFilters == {EmptyDto, [reference |-> <<"a">>], [reference |-> <<"B">>]}
PriceFilters == {EmptyDto, [priceMin |-> 50], [priceMax |-> 50], [priceMin |-> 0, priceMax |-> 30]}

FilterDtos ==
    {a @@ b @@ c @@ d @@ e :
        a \in DateFilters, b \in StatusFilters, c \in ClientFilters,
        d \in ReferenceFilters, e \in PriceFilters}

\* The where clause of lines 295-326 applied to one row.
WhereMatches(row, companyId, filterDto) ==
    /\ row.companyId = companyId
    /\ Has(filterDto, "dateFrom") => row.createdAt >= filterDto.dateFrom
    /\ Has(filterDto, "dateTo") => row.createdAt <= filterDto.dateTo
    /\ Has(filterDto, "status") => row.status = filterDto.status
    /\ Has(filterDto, "clientId") => row.clientId = filterDto.clientId
    /\ Has(filterDto, "reference") => ContainsInsensitive(row.reference, filterDto.reference)

\* Variant: the total only has to reach priceMin.
PriceMatchesMinOnly(row, filterDto) ==
    Has(filterDto, "priceMin") => CalculateInvoiceTotalWithTax(row) >= filterDto.priceMin

\* The in-memory filter of lines 341-352.
PriceMatches(row, filterDto) ==
    LET total == CalculateInvoiceTotalWithTax(row) IN
    /\ ~(Has(filterDto, "priceMin") /\ total < filterDto.priceMin)
    /\ ~(Has(filterDto, "priceMax") /\ total > filterDto.priceMax)

\* findMany({ where, orderBy: { createdAt: 'desc' } }): the matching rows by
\* falling createdAt, rows of one day in id order.
RECURSIVE OrderByCreatedAtDesc(_, _)
OrderByCreatedAtDesc(tbl, ids) ==
    IF ids = {} THEN <<>>
    ELSE LET first == CHOOSE i \in ids :
                         \A j \in ids : \/ tbl[i].createdAt > tbl[j].createdAt
                                        \/ (tbl[i].createdAt = tbl[j].createdAt /\ i <= j)
         IN  <<tbl[first]>> \o OrderByCreatedAtDesc(tbl, ids \ {first})

FindManyWhere(tbl, companyId, filterDto) ==
    OrderByCreatedAtDesc(tbl, {i \in DOMAIN tbl :
                                  tbl[i] # NoInvoice /\ WhereMatches(tbl[i], companyId, filterDto)})

FindAllError(u) ==
    IF UserCompanyId(u) = NoCompany
    THEN "BadRequest: User must be associated with a company to view invoices"
    ELSE "ok"

FindAllResult(tbl, companyId, filterDto) ==
    LET found == FindManyWhere(tbl, companyId, filterDto)
        Keep(row) == PriceMatches(row, filterDto)
    IN  IF Has(filterDto, "priceMin") \/ Has(filterDto, "priceMax")
        THEN SelectSeq(found, Keep) ELSE found

\* What findAll hands back: the rows, or the exception.
FindAll(tbl, u, filterDto) ==
    IF FindAllError(u) = "ok"
    THEN Result("findAll", 0, "ok")
            @@ [rows |-> FindAllResult(tbl, UserCompanyId(u), filterDto)]
    ELSE Result("findAll", 0, FindAllError(u))

\* A table of stored invoices and one request that has arrived.
InitFind ==
    /\ invoices \in {tbl \in [Ids -> UNION {FindRows(i) : i \in Ids}] :
                        \A i \in Ids : tbl[i] \in FindRows(i)}
    /\ nextId = MaxInvoices + 1
    /\ now = 2
    /\ last = Result("none", 0, "ok")
    /\ assigned = [k \in Companies \X SeriesNames |-> {}]
    /\ users = StoredUsers
    /\ invitations = NoInvitations
    /\ calls \in {[c \in 1..MaxCalls |->
                      IF c = 1 THEN [pc |-> "findAll", user |-> u, filterDto |-> f]
                      ELSE IdleCall] : u \in Users, f \in FilterDtos}

\* filter-invoice.dto InvoiceStatus, the values @IsEnum lets through.
FilterStatusValues == {"DRAFT", "PAID", "OVERDUE"}

ValidateFilter(filterDto) ==
    IF Has(filterDto, "status") /\ filterDto.status \notin FilterStatusValues
    THEN "BadRequest: status must be one of the following values: DRAFT, PAID, OVERDUE"
    ELSE "ok"

\* GET /invoices: the query of a request that has arrived is validated as a
\* FilterInvoiceDto, then findAll runs and the request is answered.
FindAllRoute(c) ==
    LET call == calls[c] IN
    /\ call.pc = "findAll"
    /\ last' = IF ValidateFilter(call.filterDto) = "ok"
               THEN FindAll(invoices, call.user, call.filterDto)
               ELSE Result("findAll", 0, ValidateFilter(call.filterDto))
    /\ calls' = [calls EXCEPT ![c] = IdleCall]
    /\ UNCHANGED <<invoices, nextId, now>>

NextFind ==
    \/ \E c \in CallIds : FindAllRoute(c) /\ UNCHANGED <<assigned, users, invitations>>

SpecFind == InitFind /\ [][NextFind]_vars

\* The ids of the rows a call returned.
ReturnedIds(result) == {result.rows[k].id : k \in 1..Len(result.rows)}

\* C23: a findAll that returns, returns exactly the invoices of the caller's
\* tenant that pass every filter of the request at once: createdAt from
\* dateFrom to dateTo, the status, the client id, the reference containing
\* the text whatever the case, and the total with tax of the items from
\* priceMin to priceMax inclusive; a filter that is absent excludes nothing,
\* and each invoice is returned once.
C23_FindAllFilters ==
    [][\A c \in CallIds :
         (FindAllRoute(c) /\ last'.res = "ok")
            => LET u == calls[c].user
                   f == calls[c].filterDto IN
               /\ Len(last'.rows) = Cardinality(ReturnedIds(last'))
               /\ ReturnedIds(last') =
                    {i \in Ids :
                        /\ Exists(i)
                        /\ invoices[i].companyId = UserCompanyId(u)
                        /\ Has(f, "dateFrom") => invoices[i].createdAt >= f.dateFrom
                        /\ Has(f, "dateTo") => invoices[i].createdAt <= f.dateTo
                        /\ Has(f, "status") => invoices[i].status = f.status
                        /\ Has(f, "clientId") => invoices[i].clientId = f.clientId
                        /\ Has(f, "reference") =>
                              \/ (f.reference = <<"a">> /\ invoices[i].reference = <<"A", "b">>)
                              \/ (f.reference = <<"B">> /\ invoices[i].reference # NoReference)
                        /\ Has(f, "priceMin") =>
                              ItemsTotalWithTax(invoices[i].items) >= f.priceMin
                        /\ Has(f, "priceMax") =>
                              ItemsTotalWithTax(invoices[i].items) <= f.priceMax}]_vars

\* C23 witness: a call returned one of two invoices of the caller's tenant,
\* the DRAFT whose total is 50, the other one being kept out.
C23_Witness ==
    /\ last.op = "findAll" /\ last.res = "ok"
    /\ Len(last.rows) = 1
    /\ last.rows[1].status = "DRAFT"
    /\ last.rows[1].reference = <<"A", "b">>
    /\ \A i \in Ids : Exists(i) /\ invoices[i].companyId = last.rows[1].companyId

\* C24: a request that filters by status DRAFT, PENDING, PAID or OVERDUE is
\* accepted, and one that filters by PENDING returns the invoices of the
\* caller's tenant whose stored status is PENDING.
C24_StatusFilterValues ==
    [][\A c \in CallIds :
         (/\ FindAllRoute(c) /\ UserCompanyId(calls[c].user) # NoCompany
          /\ Has(calls[c].filterDto, "status")
          /\ calls[c].filterDto.status \in {"DRAFT", "PENDING", "PAID", "OVERDUE"})
            => LET u == calls[c].user
                   f == calls[c].filterDto IN
               /\ last'.res = "ok"
               /\ (f = [status |-> "PENDING"])
                     => ReturnedIds(last') =
                           {i \in Ids : /\ Exists(i)
                                        /\ invoices[i].companyId = UserCompanyId(u)
                                        /\ invoices[i].status = "PENDING"}]_vars

(***************************************************************************)
(* SpecStatus: POST and PATCH requests whose status may be any of the      *)
(* words a caller can send, validated against create-invoice.dto's         *)
(* InvoiceStatus before the service runs.                                  *)
(***************************************************************************)
RequestStatusFields == StatusFields \cup {[status |-> "OVERDUE"]}

CreateRequestDtos == {[items |-> ItemsA] @@ b : b \in RequestStatusFields}

InvalidStatusError == "BadRequest: status must be one of the following values: DRAFT, PENDING, PAID"

\* Variant: the status of a request is not checked.
ValidateStatusAnything(dto) == "ok"

\* @IsEnum(InvoiceStatus) @IsOptional() status
ValidateStatus(dto) ==
    IF Has(dto, "status") /\ dto.status \notin Statuses THEN InvalidStatusError ELSE "ok"

CreateRequest(u, dto) ==
    IF ValidateStatus(dto) = "ok"
    THEN Create(u, dto)
    ELSE /\ last' = Result("create", 0, ValidateStatus(dto))
         /\ UNCHANGED <<invoices, nextId, now, calls>>

UpdateRequest(i, dto) ==
    IF ValidateStatus(dto) = "ok"
    THEN Update(i, dto)
    ELSE /\ last' = Result("update", i, ValidateStatus(dto))
         /\ UNCHANGED <<invoices, nextId, now, calls>>

NextStatus ==
    \/ \E u \in Editors, dto \in CreateRequestDtos : CreateRequest(u, dto) /\ UNCHANGED <<assigned, users, invitations>>
    \/ \E u \in Editors, i \in Ids : Confirm(u, i) /\ UNCHANGED <<assigned, users, invitations>>
    \/ \E u \in Editors, i \in Ids : Pay(u, i) /\ UNCHANGED <<assigned, users, invitations>>
    \/ \E i \in Ids, dto \in RequestStatusFields : UpdateRequest(i, dto) /\ UNCHANGED <<assigned, users, invitations>>
    \/ Tick /\ UNCHANGED <<assigned, users, invitations>>

SpecStatus == Init /\ [][NextStatus]_vars

\* C25: in every reachable state the stored status of every invoice is
\* DRAFT, PENDING or PAID; no create, confirm, pay or update stores OVERDUE.
C25_StoredStatuses ==
    \A i \in Ids : Exists(i) => invoices[i].status \in {"DRAFT", "PENDING", "PAID"}

\* C25 witness: an update that asked for the status OVERDUE was refused, and
\* the PENDING invoice it named, past its due date, is still PENDING.
C25_Witness ==
    /\ last.op = "update" /\ last.res = InvalidStatusError
    /\ Exists(last.id)
    /\ invoices[last.id].status = "PENDING"
    /\ \E j \in Ids : Exists(j) /\ invoices[j].status = "PAID"

\* An item list without its k-th item.
WithoutItem(items, k) == SubSeq(items, 1, k - 1) \o SubSeq(items, k + 1, Len(items))

\* C27: in the items table an item of quantity 0 has a row whose quantity,
\* unit price, tax rate, subtotal and line total are empty strings and
\* whose article text is its name, and the total quantity, base amount, tax
\* amount and total with tax are what they are without that item.
C27_ZeroQuantityRow ==
    [][\A i \in RowIds :
         ItemsTableCall(i)
            => LET items == invoices[i].items
                   table == last'.table
               IN  \A k \in 1..Len(items) :
                      items[k].quantity = 0
                         => /\ table.rows[k].quantity = <<>>
                            /\ table.rows[k].price = <<>>
                            /\ table.rows[k].taxRate = <<>>
                            /\ table.rows[k].subtotal = <<>>
                            /\ table.rows[k].total = <<>>
                            /\ table.rows[k].article = items[k].name
                            /\ table.totalQuantity = TotalQuantity(WithoutItem(items, k))
                            /\ table.totals.baseAmount = TotalsOf(WithoutItem(items, k)).baseAmount
                            /\ table.totals.totalTax = TotalsOf(WithoutItem(items, k)).totalTax
                            /\ table.totals.totalWithTax
                                  = TotalsOf(WithoutItem(items, k)).totalWithTax]_vars

\* C27 witness: an items table was drawn for an item with a quantity
\* followed by an item of quantity 0 and a price: the first row has its
\* numbers, the second only its article.
C27_Witness ==
    /\ last.op = "drawItemsTable"
    /\ Len(invoices[last.id].items) = 2
    /\ invoices[last.id].items[1].quantity = 2
    /\ invoices[last.id].items[2].quantity = 0
    /\ invoices[last.id].items[2].price = 100
    /\ last.table.rows[1].quantity = <<2>>
    /\ last.table.rows[2].quantity = <<>>
    /\ last.table.rows[2].article = "work"
    /\ last.table.totalQuantity = 2

(***************************************************************************)
(* SpecPdf: GET /invoices/:id/pdf/preview, with generatePDF taken one      *)
(* drawing step and one document event at a time.  The document counts    *)
(* the sections drawn into it; a chunk carries one drawn section.          *)
(***************************************************************************)
SectionCount == 10

PdfFailed == "500: Failed to generate PDF"

\* new Promise(...): the document is created and its three listeners are set.
NewDocument(i) ==
    [pc |-> "draw", id |-> i, drawn |-> 0, chunks |-> 0, promise |-> "pending",
     buffer |-> 0, failed |-> FALSE]

\* resolve(value) and reject(error) settle a promise that is still pending.
Resolve(call, value) ==
    IF call.promise = "pending" THEN [call EXCEPT !.promise = "resolved", !.buffer = value]
    ELSE call

Reject(call) ==
    IF call.promise = "pending" THEN [call EXCEPT !.promise = "rejected"] ELSE call

\* Variant: the catch block hands over what has been produced so far.
CatchResolvesChunks(call) ==
    Resolve([call EXCEPT !.pc = "abandoned", !.failed = TRUE], call.chunks)

\* catch (error) { reject(error) }: doc.end() is never reached.
Catch(call) == Reject([call EXCEPT !.pc = "abandoned", !.failed = TRUE])

\* await this.findOne(id): a missing invoice rejects before any document exists.
PdfStart(c, i) ==
    /\ calls[c].pc = "idle"
    /\ IF Exists(i)
       THEN /\ calls' = [calls EXCEPT ![c] = NewDocument(i)]
            /\ UNCHANGED last
       ELSE /\ last' = Result("previewPDF", i, PdfFailed)
            /\ UNCHANGED calls
    /\ UNCHANGED <<invoices, nextId, now>>

\* One of the draw calls of lines 1037-1048 returns.
DrawSection(c) ==
    /\ calls[c].pc = "draw"
    /\ calls[c].drawn < SectionCount
    /\ calls' = [calls EXCEPT ![c].drawn = @ + 1]
    /\ UNCHANGED <<invoices, nextId, now, last>>

\* One of the draw calls throws.
DrawThrows(c) ==
    /\ calls[c].pc = "draw"
    /\ calls[c].drawn < SectionCount
    /\ calls' = [calls EXCEPT ![c] = Catch(calls[c])]
    /\ UNCHANGED <<invoices, nextId, now, last>>

\* doc.end() after the last section.
DocEnd(c) ==
    /\ calls[c].pc = "draw"
    /\ calls[c].drawn = SectionCount
    /\ calls' = [calls EXCEPT ![c].pc = "ending"]
    /\ UNCHANGED <<invoices, nextId, now, last>>

\* doc.on('data', (chunk) => chunks.push(chunk))
DataEvent(c) ==
    /\ calls[c].pc \in {"draw", "ending"}
    /\ calls[c].chunks < calls[c].drawn
    /\ calls' = [calls EXCEPT ![c].chunks = @ + 1]
    /\ UNCHANGED <<invoices, nextId, now, last>>

\* doc.on('end', () => resolve(Buffer.concat(chunks))): the stream ends
\* after doc.end() and after its last chunk.
EndEvent(c) ==
    /\ calls[c].pc = "ending"
    /\ calls[c].chunks = calls[c].drawn
    /\ calls' = [calls EXCEPT ![c] = Resolve([calls[c] EXCEPT !.pc = "ended"], calls[c].chunks)]
    /\ UNCHANGED <<invoices, nextId, now, last>>

\* doc.on('error', reject)
ErrorEvent(c) ==
    /\ calls[c].pc \in {"draw", "ending"}
    /\ calls' = [calls EXCEPT ![c] = Reject([calls[c] EXCEPT !.failed = TRUE])]
    /\ UNCHANGED <<invoices, nextId, now, last>>

\* previewPDF after its await: the buffer as application/pdf, or the catch's
\* status 500 with a JSON body.
PdfRespond(c) ==
    /\ calls[c].pc # "idle"
    /\ calls[c].promise # "pending"
    /\ last' = IF calls[c].promise = "resolved"
               THEN Result("previewPDF", calls[c].id, "ok") @@ [pdf |-> calls[c].buffer]
               ELSE Result("previewPDF", calls[c].id, PdfFailed)
    /\ calls' = [calls EXCEPT ![c] = IdleCall]
    /\ UNCHANGED <<invoices, nextId, now>>

NextPdf ==
    \/ \E u \in Editors : Create(u, [items |-> ItemsA]) /\ UNCHANGED <<assigned, users, invitations>>
    \/ \E c \in CallIds, i \in Ids : PdfStart(c, i) /\ UNCHANGED <<assigned, users, invitations>>
    \/ \E c \in CallIds : DrawSection(c) /\ UNCHANGED <<assigned, users, invitations>>
    \/ \E c \in CallIds : DrawThrows(c) /\ UNCHANGED <<assigned, users, invitations>>
    \/ \E c \in CallIds : DocEnd(c) /\ UNCHANGED <<assigned, users, invitations>>
    \/ \E c \in CallIds : DataEvent(c) /\ UNCHANGED <<assigned, users, invitations>>
    \/ \E c \in CallIds : EndEvent(c) /\ UNCHANGED <<assigned, users, invitations>>
    \/ \E c \in CallIds : ErrorEvent(c) /\ UNCHANGED <<assigned, users, invitations>>
    \/ \E c \in CallIds : PdfRespond(c) /\ UNCHANGED <<assigned, users, invitations>>

SpecPdf == Init /\ [][NextPdf]_vars

\* C26: a generatePDF whose promise is resolved has drawn every section,
\* has seen the end event and holds all the sections in its buffer; one in
\* which a drawing step threw or the document emitted an error is never
\* resolved; and a response that delivers a PDF delivers all the sections,
\* a missing invoice or a failed generation being answered without one.
C26_NoPartialPdf ==
    /\ \A c \in CallIds :
          calls[c].pc # "idle"
             => /\ calls[c].promise = "resolved"
                      => /\ calls[c].pc = "ended"
                         /\ calls[c].drawn = 10
                         /\ calls[c].buffer = 10
                /\ calls[c].failed => calls[c].promise = "rejected"
    /\ last.op = "previewPDF"
          => /\ last.res = "ok" => (Exists(last.id) /\ last.pdf = 10)
             /\ last.res # "ok" => (last.res = PdfFailed /\ "pdf" \notin DOMAIN last)

\* C26 witness: a generation that had drawn some sections and delivered some
\* chunks failed and is rejected, after another request was answered with a
\* whole document.
C26_Witness ==
    /\ last.op = "previewPDF" /\ last.res = "ok"
    /\ \E c \in CallIds :
          /\ calls[c].pc = "abandoned"
          /\ calls[c].drawn > 2
          /\ calls[c].chunks > 0
          /\ calls[c].promise = "rejected"

\* C28: when confirm calls on one invoice overlap, a call that gets as far
\* as its write either finds the invoice still DRAFT and succeeds, writing
\* the number and the emission date for the first and only time, or fails
\* with the only-draft-invoices error and writes nothing.
C28_ConfirmOnce ==
    [][\A c \in CallIds :
         ConfirmWrite(c)
            => \/ /\ Exists(calls[c].id)
                  /\ invoices[calls[c].id].status = "DRAFT"
                  /\ last'.res = "ok"
               \/ /\ last'.res = NotDraftError
                  /\ invoices' = invoices]_vars

(***************************************************************************)
(* SpecMembers: CompaniesService.removeUser, one await at a time, with     *)
(* calls that overlap.                                                     *)
(***************************************************************************)
Members == {"a1", "a2", "m1"}
Roles == {"ADMIN", "MEMBER"}

\* Company c1 with the admin a1, a second user a2 and m1, who may have left.
MemberTables ==
    {[u \in Members |->
         CASE u = "a1" -> [companyId |-> "c1", role |-> "ADMIN"]
           [] u = "a2" -> [companyId |-> "c1", role |-> r]
           [] u = "m1" -> [companyId |-> co, role |-> "MEMBER"]] :
       r \in Roles, co \in {"c1", NoCompany}}

\* prisma.user.findUnique({ where: { id } })
FindUser(tbl, id) == IF id \in DOMAIN tbl THEN tbl[id] ELSE NoInvoice

\* prisma.user.count({ where: { companyId, role: 'ADMIN' } })
CountAdmins(tbl, companyId) ==
    Cardinality({u \in DOMAIN tbl : tbl[u].companyId = companyId /\ tbl[u].role = "ADMIN"})

LastAdminError == "Conflict: Cannot remove the last admin from the company"

\* findOne(companyId) and the read of the user to remove, with its checks.
RemoveUserTarget(c, companyId, userIdToRemove, currentUserId) ==
    LET userToRemove == FindUser(users, userIdToRemove)
        err == IF userToRemove = NoInvoice THEN "NotFound: User not found"
               ELSE IF userToRemove.companyId # companyId
               THEN "Conflict: User does not belong to this company"
               ELSE "ok"
    IN  /\ calls[c].pc = "idle"
        /\ IF err = "ok"
           THEN /\ calls' = [calls EXCEPT ![c] =
                                [pc |-> "currentUser", companyId |-> companyId,
                                 userIdToRemove |-> userIdToRemove,
                                 currentUserId |-> currentUserId,
                                 userToRemove |-> userToRemove]]
                /\ UNCHANGED last
           ELSE /\ last' = Result("removeUser", userIdToRemove, err)
                /\ UNCHANGED calls
        /\ UNCHANGED <<users, invitations>>

\* The read of the caller, with the permission, role and self checks.
RemoveUserCurrent(c) ==
    LET call == calls[c]
        currentUser == FindUser(users, call.currentUserId)
        err == IF currentUser = NoInvoice \/ currentUser.companyId # call.companyId
               THEN "Conflict: You do not have permission to remove users from this company"
               ELSE IF currentUser.role # "ADMIN"
               THEN "Conflict: Only admins can remove users from the company"
               ELSE IF call.userIdToRemove = call.currentUserId
               THEN "Conflict: You cannot remove yourself from the company"
               ELSE "ok"
    IN  /\ call.pc = "currentUser"
        /\ IF err = "ok"
           THEN /\ calls' = [calls EXCEPT ![c].pc =
                                IF call.userToRemove.role = "ADMIN" THEN "count" ELSE "update"]
                /\ UNCHANGED last
           ELSE /\ last' = Result("removeUser", call.userIdToRemove, err)
                /\ calls' = [calls EXCEPT ![c] = IdleCall]
        /\ UNCHANGED <<users, invitations>>

\* The count of the company's admins, when the user to remove is one.
RemoveUserCount(c) ==
    LET call == calls[c]
        adminCount == CountAdmins(users, call.companyId)
    IN  /\ call.pc = "count"
        /\ IF adminCount <= 1
           THEN /\ last' = Result("removeUser", call.userIdToRemove, LastAdminError)
                /\ calls' = [calls EXCEPT ![c] = IdleCall]
           ELSE /\ calls' = [calls EXCEPT ![c].pc = "update"]
                /\ UNCHANGED last
        /\ UNCHANGED <<users, invitations>>

\* user.update({ where: { id: userIdToRemove }, data: { companyId: null } })
RemoveUserWrite(c) ==
    LET call == calls[c] IN
    /\ call.pc = "update"
    /\ users' = [users EXCEPT ![call.userIdToRemove].companyId = NoCompany]
    /\ last' = Result("removeUser", call.userIdToRemove, "ok")
    /\ calls' = [calls EXCEPT ![c] = IdleCall]
    /\ UNCHANGED invitations

InitMembers ==
    /\ invoices = [i \in Ids |-> NoInvoice]
    /\ nextId = 1
    /\ now = 1
    /\ last = Result("none", 0, "ok")
    /\ assigned = [k \in Companies \X SeriesNames |-> {}]
    /\ calls = [c \in 1..MaxCalls |-> IdleCall]
    /\ users \in MemberTables
    /\ invitations = NoInvitations

NextMembers ==
    \/ \E c \in CallIds, co \in Companies, target \in Members \cup {"nobody"}, current \in Members :
          RemoveUserTarget(c, co, target, current) /\ UNCHANGED <<invoices, nextId, now, assigned>>
    \/ \E c \in CallIds : RemoveUserCurrent(c) /\ UNCHANGED <<invoices, nextId, now, assigned>>
    \/ \E c \in CallIds : RemoveUserCount(c) /\ UNCHANGED <<invoices, nextId, now, assigned>>
    \/ \E c \in CallIds : RemoveUserWrite(c) /\ UNCHANGED <<invoices, nextId, now, assigned>>

SpecMembers == InitMembers /\ [][NextMembers]_vars

\* C29: company c1, which starts with an ADMIN member, has an ADMIN member
\* in every reachable state, whatever removeUser calls run and overlap.
C29_AdminRemains ==
    \E u \in Members : users[u].companyId = "c1" /\ users[u].role = "ADMIN"

(***************************************************************************)
(* SpecInvite: AuthService.acceptInvitation and the first sign-in of an    *)
(* invited address (validateGoogleUser), one await at a time, with calls   *)
(* that overlap.  A date that is null is the empty sequence.               *)
(***************************************************************************)
NullDate == <<>>

Guests == {"g1", "g2"}              \* signed-in users without a company
Tokens == {"t1", "t0"}              \* t0 is the token of no invitation
InvitedEmail == "e3"
NewUser == "g3"                     \* the user the first sign-in of e3 creates

\* One open invitation of company c1, by its token.
InvitationTables ==
    {[t \in {"t1"} |-> [email |-> InvitedEmail, companyId |-> "c1",
                        expiresAt |-> d, acceptedAt |-> NullDate]] : d \in 1..MaxNow}

\* companyInvitation.findUnique({ where: { token } })
FindInvitation(tbl, token) == IF token \in DOMAIN tbl THEN tbl[token] ELSE NoInvoice

\* The three checks of lines 149-159.
AcceptError(invitation, today) ==
    IF invitation = NoInvoice THEN "Error: Invitation not found"
    ELSE IF invitation.acceptedAt # NullDate THEN "Error: Invitation already accepted"
    ELSE IF invitation.expiresAt < today THEN "Error: Invitation expired"
    ELSE "ok"

AcceptRead(c, token, userId) ==
    LET invitation == FindInvitation(invitations, token)
        err == AcceptError(invitation, now)
    IN  /\ calls[c].pc = "idle"
        /\ IF err = "ok"
           THEN /\ calls' = [calls EXCEPT ![c] =
                                [pc |-> "attach", token |-> token, userId |-> userId,
                                 invitation |-> invitation]]
                /\ UNCHANGED last
           ELSE /\ last' = Result("acceptInvitation", userId, err)
                /\ UNCHANGED calls
        /\ UNCHANGED <<users, invitations, now>>

\* user.update({ where: { id: userId }, data: { companyId: invitation.companyId } })
AcceptAttach(c) ==
    LET call == calls[c] IN
    /\ call.pc = "attach"
    /\ users' = [users EXCEPT ![call.userId].companyId = call.invitation.companyId]
    /\ calls' = [calls EXCEPT ![c].pc = "mark"]
    /\ UNCHANGED <<invitations, last, now>>

\* companyInvitation.update({ data: { acceptedAt: new Date() } })
AcceptMark(c) ==
    LET call == calls[c] IN
    /\ call.pc = "mark"
    /\ invitations' = [invitations EXCEPT ![call.token].acceptedAt = <<now>>]
    /\ last' = Result("acceptInvitation", call.userId, "ok")
    /\ calls' = [calls EXCEPT ![c] = IdleCall]
    /\ UNCHANGED <<users, now>>

\* validateGoogleUser for an address without a user: findFirst looks for an
\* open invitation of the address (lines 38-49).
SignupFind(c) ==
    LET open == {t \in DOMAIN invitations :
                    /\ invitations[t].email = InvitedEmail
                    /\ invitations[t].acceptedAt = NullDate
                    /\ invitations[t].expiresAt > now}
    IN  /\ calls[c].pc = "idle"
        /\ NewUser \notin DOMAIN users
        /\ \A d \in CallIds : calls[d].pc \notin {"create", "accept"}
        /\ calls' = [calls EXCEPT ![c] =
                        [pc |-> "create",
                         token |-> IF open = {} THEN "none" ELSE CHOOSE t \in open : TRUE]]
        /\ UNCHANGED <<users, invitations, last, now>>

\* user.create with the company of the invitation, or with none (lines 52-63).
SignupCreate(c) ==
    LET call == calls[c] IN
    /\ call.pc = "create"
    /\ users' = users @@ (NewUser :>
                    [companyId |-> IF call.token = "none" THEN NoCompany
                                   ELSE invitations[call.token].companyId,
                     role |-> "MEMBER"])
    /\ IF call.token = "none"
       THEN /\ calls' = [calls EXCEPT ![c] = IdleCall]
            /\ last' = Result("validateGoogleUser", NewUser, "ok")
       ELSE /\ calls' = [calls EXCEPT ![c].pc = "accept"]
            /\ UNCHANGED last
    /\ UNCHANGED <<invitations, now>>

\* The invitation found is marked accepted (lines 66-71).
SignupMark(c) ==
    LET call == calls[c] IN
    /\ call.pc = "accept"
    /\ invitations' = [invitations EXCEPT ![call.token].acceptedAt = <<now>>]
    /\ last' = Result("validateGoogleUser", NewUser, "ok")
    /\ calls' = [calls EXCEPT ![c] = IdleCall]
    /\ UNCHANGED <<users, now>>

\* A day passes.
TickInvite ==
    /\ now < MaxNow
    /\ now' = now + 1
    /\ UNCHANGED <<users, invitations, last, calls>>

InitInvite ==
    /\ invoices = [i \in Ids |-> NoInvoice]
    /\ nextId = 1
    /\ now = 1
    /\ last = Result("none", 0, "ok")
    /\ assigned = [k \in Companies \X SeriesNames |-> {}]
    /\ calls = [c \in 1..MaxCalls |-> IdleCall]
    /\ users = [u \in Guests |-> [companyId |-> NoCompany, role |-> "MEMBER"]]
    /\ invitations \in InvitationTables

NextInvite ==
    \/ \E c \in CallIds, token \in Tokens, userId \in Guests :
          AcceptRead(c, token, userId) /\ UNCHANGED <<invoices, nextId, assigned>>
    \/ \E c \in CallIds : AcceptAttach(c) /\ UNCHANGED <<invoices, nextId, assigned>>
    \/ \E c \in CallIds : AcceptMark(c) /\ UNCHANGED <<invoices, nextId, assigned>>
    \/ \E c \in CallIds : SignupFind(c) /\ UNCHANGED <<invoices, nextId, assigned>>
    \/ \E c \in CallIds : SignupCreate(c) /\ UNCHANGED <<invoices, nextId, assigned>>
    \/ \E c \in CallIds : SignupMark(c) /\ UNCHANGED <<invoices, nextId, assigned>>
    \/ TickInvite /\ UNCHANGED <<invoices, nextId, assigned>>

SpecInvite == InitInvite /\ [][NextInvite]_vars

\* C30: an invitation attaches at most one user: company c1, which nobody
\* belongs to at the start and which has issued one invitation, never has
\* more than one user, whatever acceptInvitation calls and sign-ins run and
\* overlap.
C30_AcceptedAtMostOnce ==
    Cardinality({u \in DOMAIN users : users[u].companyId = "c1"}) <= 1

====
